---- MODULE Spec2Model ----
(***************************************************************************)
(* Model of the foboot "booster" updater, booster/src/main.c.              *)
(*                                                                         *)
(* fobooster_main() waits for the transport, validates the image that sits *)
(* in the memory-mapped flash at 0x20040000, copies it to RAM, and then    *)
(* rewrites the first 128 KiB of the SPI flash sector by sector.           *)
(*                                                                         *)
(* Memories keep their real sizes.  A memory is a run-length encoded       *)
(* sequence of <<count, byte>> runs in canonical form (no empty run, no    *)
(* two adjacent runs with the same byte), so two memories hold the same    *)
(* bytes exactly when they are equal as values.                            *)
(***************************************************************************)
EXTENDS Integers, Sequences, FiniteSets, TLC

\* ------------------------------------------------------------- constants

\* A uint32_t that may wrap is held as <<high half, low half>>, two 16-bit
\* halves, and its arithmetic is modulo 2^32.
Half == 65536

U32Of(n) == <<(n \div Half) % Half, n % Half>>

U32Add(a, b) ==
    LET lo == a[2] + b[2]
        hi == a[1] + b[1] + (IF lo >= Half THEN 1 ELSE 0)
    IN  <<hi % Half, lo % Half>>

U32Sub(a, b) ==
    LET lo == a[2] - b[2]
        hi == a[1] - b[1] - (IF lo < 0 THEN 1 ELSE 0)
    IN  <<hi % Half, lo % Half>>

\* unsigned a > b
U32Gt(a, b) == a[1] > b[1] \/ (a[1] = b[1] /\ a[2] > b[2])

U32Zero == <<0, 0>>

\* SPI_ERASE_SECTOR_SIZE, SPI_PROGRAM_PAGE_SIZE
SPI_ERASE_SECTOR_SIZE == 4096
SPI_PROGRAM_PAGE_SIZE == 256

\* sizeof(cached_image) = 0x1a000
CachedImageSize == 106496

\* the programming loop's address limit
MaxWritableOffset == 131072

\* the flash sector that holds the booster itself (0x5a000)
BoosterSector == 368640

\* the boot-selector byte of the multiboot header
SelectorOffset == 9

\* enum error_code
NO_ERROR == 0
INVALID_IMAGE_SIZE == 1
HASH_MISMATCH == 2
SPI_MISMATCH == 3
MISSING_MULTIBOOT == 4

\* picorvspi cfg4 values: memory-mapped mode and bit-banged mode
CFG_MAPPED == 128
CFG_BITBANG == 0

\* a byte of erased flash
ERASED == 255

Min(a, b) == IF a < b THEN a ELSE b

\* --------------------------------------------- run-length encoded memory

Fill(n, v) == IF n <= 0 THEN <<>> ELSE << <<n, v>> >>

\* the run sequences: pairs <<count, byte>>
Runs == Seq(Int \X Int)

\* the recursions below are functions of the evaluated arguments
MemLen(m) ==
    LET len[r \in Runs] == IF r = <<>> THEN 0 ELSE r[1][1] + len[Tail(r)]
    IN  len[m]

\* concatenation, merging the two runs that meet when they hold the same byte
Cat(a, b) ==
    LET cat[x \in Runs, y \in Runs] ==
            IF x = <<>> THEN y
            ELSE IF y = <<>> THEN x
            ELSE IF x[Len(x)][2] = y[1][2]
                 THEN SubSeq(x, 1, Len(x) - 1)
                        \o << <<x[Len(x)][1] + y[1][1], y[1][2]>> >> \o Tail(y)
                 ELSE x \o y
    IN  cat[a, b]

\* the first k bytes of m
Take(m, k) ==
    LET take[r \in Runs, n \in Int] ==
            IF n <= 0 \/ r = <<>> THEN <<>>
            ELSE IF r[1][1] <= n THEN << r[1] >> \o take[Tail(r), n - r[1][1]]
            ELSE << <<n, r[1][2]>> >>
    IN  take[m, k]

\* m without its first k bytes
Drop(m, k) ==
    LET drop[r \in Runs, n \in Int] ==
            IF n <= 0 \/ r = <<>> THEN r
            ELSE IF r[1][1] <= n THEN drop[Tail(r), n - r[1][1]]
            ELSE << <<r[1][1] - n, r[1][2]>> >> \o Tail(r)
    IN  drop[m, k]

\* the n bytes of m that start at offset off
Slice(m, off, n) == Take(Drop(m, off), n)

\* the byte of m at offset i
ByteAt(m, i) == Drop(m, i)[1][2]

\* m with the bytes of data written at offset off (memcpy into m + off)
Store(m, off, data) ==
    Cat(Cat(Take(m, off), data), Drop(m, off + MemLen(data)))

\* the memory that holds the bytes of a sequence
RECURSIVE FromBytes(_)
FromBytes(s) ==
    IF s = <<>> THEN <<>> ELSE Cat(Fill(1, s[1]), FromBytes(Tail(s)))

\* ------------------------------------------------- multiboot_reference

multiboot_reference ==
    FromBytes(<< 126, 170, 153, 126, 146, 0, 0, 68,
                 3, 4, 0, 160, 130, 0, 0, 1,
                 8, 0, 0, 0, 0, 0, 0, 0,
                 0, 0, 0, 0, 0, 0, 0, 0,
                 126, 170, 153, 126, 146, 0, 0, 68,
                 3, 0, 0, 160, 130, 0, 0, 1,
                 8, 0, 0, 0, 0, 0, 0, 0,
                 0, 0, 0, 0, 0, 0, 0, 0 >>)

MultibootSize == MemLen(multiboot_reference)

\* ------------------------------------------------------------ XXH32

\* XXH32(input, length, seed): a 32-bit hash of the first len bytes of mem.
\* xxhash.c is not part of main.c; the hash is a pure function of the bytes,
\* the length and the seed.
HashRuns(m, h) ==
    LET hash[r \in Runs, a \in Int \X Int] ==
            IF r = <<>> THEN a
            ELSE hash[Tail(r), << (a[1] * 31 + r[1][1]) % Half,
                                  (a[2] * 31 + r[1][1] * (r[1][2] + 1)) % Half >>]
    IN  hash[m, h]

XXH32(mem, len, seed) == HashRuns(Take(mem, len), U32Add(U32Of(seed), U32Of(len)))

\* ------------------------------------------------------------- inputs

\* image lengths tried: up to MaxFullBlocks whole sectors plus a tail, the
\* staging capacity itself, and one byte more than the capacity
MaxFullBlocks == 1
TailLengths == {0, 100, 300}
ImageLengths ==
    { b * SPI_ERASE_SECTOR_SIZE + t : b \in 0..MaxFullBlocks, t \in TailLengths }
      \cup { CachedImageSize, CachedImageSize + 1 }

\* <<hash_length, image_seed>> pairs tried
HashParams == { <<64, 0>>, <<4096, 1>> }
SpiIds == {1, 2}

\* payload bytes that follow the 64 header bytes of a source image
Payloads == {165}

\* headers tried: the reference, the reference with another selector byte,
\* the reference with a wrong byte elsewhere
Headers ==
    { multiboot_reference,
      Store(multiboot_reference, SelectorOffset, Fill(1, 0)),
      Store(multiboot_reference, 40, Fill(1, 127)) }

\* the flash region at 0x20040000 that holds the image to install
Sources ==
    { Cat(h, Fill(CachedImageSize - MultibootSize, p)) : h \in Headers, p \in Payloads }

\* what cached_image holds after a successful validation of (src, len)
StagedOf(src, len) ==
    LET n == Min(len, CachedImageSize)
        copied == Cat(Take(src, n), Fill(CachedImageSize - n, 0))
    IN  Store(copied, SelectorOffset, Fill(1, 4))

\* the first multiple of the sector size that is >= n
SectorCeil(n) ==
    ((n + SPI_ERASE_SECTOR_SIZE - 1) \div SPI_ERASE_SECTOR_SIZE) * SPI_ERASE_SECTOR_SIZE

\* initial contents of flash[0, MaxWritableOffset) tried for (src, len):
\* erased; the image followed by erased flash; the sectors of the staging
\* buffer that hold the image followed by erased flash; the whole staging
\* buffer followed by erased flash
FlashContents(src, len) ==
    LET n == Min(len, CachedImageSize)
        holds(k) == Cat(Take(StagedOf(src, len), k), Fill(MaxWritableOffset - k, ERASED))
    IN  { Fill(MaxWritableOffset, ERASED), holds(n), holds(SectorCeil(n)),
          holds(CachedImageSize) }

\* A read past the end of cached_image is undefined: the memory that follows
\* the array reads as one of these bytes, settled by the first such read.
Garbage == {0, ERASED}
Unread == -1

\* -------------------------------------------------------------- state

VARIABLES
    pc,                  \* position of fobooster_main
    should_continue,     \* volatile uint32_t should_continue
    image_length, hash_length, image_seed, spi_id,   \* externs set by the installer
    xxhash,              \* booster_data.xxhash
    source,              \* the memory-mapped image at 0x20040000
    flash,               \* flash bytes [0, MaxWritableOffset)
    cached_image,        \* static uint32_t cached_image[0x1a000/4]
    calculated_hash, cached_spi_id, read_spi_id, cached_image_length,
    error_code,
    bytes_left,          \* uint32_t, as two halves
    target_addr,         \* uint32_t; the loop keeps it below 2^31
    current_ptr,         \* offset of current_ptr from cached_image
    page_offset, check_block, c,
    cfg4,                \* picorvspi cfg4 register
    spi_busy,            \* spiIsBusy()
    rgb,                 \* status indicator presentation
    reboot_ctrl,         \* value written to reboot_ctrl, -1 before
    beyond,              \* what the memory past the end of cached_image reads as
    \* history
    flash0,              \* the initial flash contents
    nerase, nprogram,    \* commands issued so far
    erased,              \* addresses of the sectors erased by the loop
    last_cmd,            \* the last erase/program command issued
    last_read,           \* the last range of cached_image read by the loop
    handoff,             \* steps of the reboot handoff, in order
    pass,                \* programming pass (1, or 2 when the loop is re-run)
    pass_mark            \* <<nerase, nprogram>> when the current pass began

inputs == <<image_length, hash_length, image_seed, spi_id, xxhash, source, flash0>>
locals == <<bytes_left, target_addr, current_ptr, page_offset, check_block, c, beyond>>
history == <<nerase, nprogram, erased, last_cmd, last_read, handoff, pass, pass_mark>>
validated == <<calculated_hash, cached_spi_id, read_spi_id, cached_image_length>>
vars == <<pc, should_continue, inputs, flash, cached_image, validated, error_code,
          locals, cfg4, spi_busy, rgb, reboot_ctrl, history>>

NoCmd == [op |-> "none", addr |-> 0, len |-> 0, busy |-> FALSE, mode |-> CFG_MAPPED]
NoRead == [off |-> 0, len |-> 0]

Init ==
    /\ pc = "start"
    /\ should_continue = 0
    /\ image_length \in ImageLengths
    /\ \E hp \in HashParams : hash_length = hp[1] /\ image_seed = hp[2]
    /\ spi_id \in SpiIds
    /\ source \in Sources
    /\ xxhash \in { XXH32(source, hash_length, image_seed),
                    U32Add(XXH32(source, hash_length, image_seed), U32Of(1)) }
    /\ flash \in FlashContents(source, image_length)
    /\ flash0 = flash
    /\ cached_image = Fill(CachedImageSize, 0)
    /\ calculated_hash = U32Zero
    /\ cached_spi_id = 0
    /\ read_spi_id = 0
    /\ cached_image_length = 0
    /\ error_code = NO_ERROR
    /\ bytes_left = U32Zero
    /\ target_addr = 0
    /\ current_ptr = 0
    /\ page_offset = 0
    /\ check_block = Fill(SPI_ERASE_SECTOR_SIZE, 0)
    /\ c = 0
    /\ cfg4 = CFG_MAPPED
    /\ spi_busy = FALSE
    /\ rgb = "off"
    /\ reboot_ctrl = -1
    /\ beyond = Unread
    /\ nerase = 0
    /\ nprogram = 0
    /\ erased = {}
    /\ last_cmd = NoCmd
    /\ last_read = NoRead
    /\ handoff = <<>>
    /\ pass = 1
    /\ pass_mark = <<0, 0>>

\* ------------------------------------------------------ error()

\* error() without its first while(1): it runs on into erase_booster()
ErrorFallsThrough(code) ==
    /\ error_code' = code
    /\ rgb' = "error"
    /\ pc' = "select"

\* error() that returns to its caller, which carries on with the next check
ErrorReturns(code) ==
    /\ error_code' = code
    /\ rgb' = "error"
    /\ pc' = CASE pc = "check_size" -> "check_hash"
              [] pc = "check_hash" -> "copy"
              [] pc = "check_multiboot" -> "patch"
              [] OTHER -> "loop_init"

\* error(code): latch the code, show the error pattern, spin forever
Error(code) ==
    /\ error_code' = code
    /\ rgb' = "error"
    /\ pc' = "failed"

\* ------------------------------------------------- the SPI flash driver

\* the command record kept for the history: what was issued, while the
\* controller was busy or not, in which interface mode
Cmd(op, addr, len) ==
    [op |-> op, addr |-> addr, len |-> len, busy |-> spi_busy, mode |-> cfg4]

\* the sector that contains addr
SectorOf(addr) == (addr \div SPI_ERASE_SECTOR_SIZE) * SPI_ERASE_SECTOR_SIZE

\* flash after spiBeginErase4(addr): the 4 KiB sector that contains addr reads
\* as erased bytes; sectors outside [0, MaxWritableOffset) are not kept
EraseSector(mem, addr) ==
    IF SectorOf(addr) >= MaxWritableOffset THEN mem
    ELSE Store(mem, SectorOf(addr), Fill(SPI_ERASE_SECTOR_SIZE, ERASED))

\* flash after spiBeginWrite(addr, data, count).  The bytes written are
\* either erased (0xFF) beforehand or written with 0x00, so programming,
\* which can only clear bits, leaves exactly the data.  A command takes
\* effect on the contents when it is issued; spi_busy tells that the
\* controller is still at work on it.
WritePage(mem, addr, data) ==
    IF addr >= MaxWritableOffset THEN mem
    ELSE Store(mem, addr, Take(data, MaxWritableOffset - addr))

\* a busy-wait that returns at once
BusyIgnored == TRUE

\* a poll with the sense of the busy flag inverted
BusyInverted == spi_busy

\* ftfl_busy_wait() returns
NotBusy == ~spi_busy

\* the controller finishes the pending operation
SpiComplete ==
    /\ spi_busy
    /\ spi_busy' = FALSE
    /\ UNCHANGED <<pc, should_continue, inputs, flash, cached_image, validated,
                   error_code, locals, cfg4, rgb, reboot_ctrl, history>>

\* ------------------------------------------------ fobooster_main: start

\* irq_setmask .. usb_connect
Start ==
    /\ pc = "start"
    /\ rgb' = "init"
    /\ pc' = "wait_continue"
    /\ UNCHANGED <<should_continue, inputs, flash, cached_image, validated,
                   error_code, locals, cfg4, spi_busy, reboot_ctrl, history>>

\* the transport sets should_continue from the USB interrupt
usb_isr ==
    /\ pc = "wait_continue"
    /\ should_continue = 0
    /\ should_continue' = 1
    /\ UNCHANGED <<pc, inputs, flash, cached_image, validated, error_code,
                   locals, cfg4, spi_busy, rgb, reboot_ctrl, history>>

\* while(!should_continue);
WaitContinue ==
    /\ pc = "wait_continue"
    /\ should_continue # 0
    /\ pc' = "check_size"
    /\ UNCHANGED <<should_continue, inputs, flash, cached_image, validated,
                   error_code, locals, cfg4, spi_busy, rgb, reboot_ctrl, history>>

\* ---------------------------------------------------------- validation

\* the size compared with the flash limit instead of the buffer size
ImageTooBigForFlash(len) == len > MaxWritableOffset

\* image_length > sizeof(cached_image)
ImageTooBig(len) == len > CachedImageSize

\* the size check left out: every length goes on to the hash check
CheckSizeSkipped ==
    /\ pc = "check_size"
    /\ pc' = "check_hash"
    /\ UNCHANGED <<should_continue, inputs, flash, cached_image, validated,
                   error_code, rgb, locals, cfg4, spi_busy, reboot_ctrl, history>>

CheckSize ==
    /\ pc = "check_size"
    /\ IF ImageTooBig(image_length)
       THEN Error(INVALID_IMAGE_SIZE)
       ELSE /\ pc' = "check_hash"
            /\ UNCHANGED <<error_code, rgb>>
    /\ UNCHANGED <<should_continue, inputs, flash, cached_image, validated,
                   locals, cfg4, spi_busy, reboot_ctrl, history>>

\* the hashes compared as 16-bit values, their low halves dropped
HashDiffersHigh(calc, expected) == calc[1] # expected[1]

\* calculated_hash != booster_data.xxhash
HashDiffers(calc, expected) == calc # expected

CheckHash ==
    /\ pc = "check_hash"
    /\ calculated_hash' = XXH32(source, hash_length, image_seed)
    /\ IF HashDiffers(calculated_hash', xxhash)
       THEN Error(HASH_MISMATCH)
       ELSE /\ pc' = "copy"
            /\ UNCHANGED <<error_code, rgb>>
    /\ UNCHANGED <<should_continue, inputs, flash, cached_image, cached_spi_id,
                   read_spi_id, cached_image_length, locals, cfg4, spi_busy,
                   reboot_ctrl, history>>

\* memcpy(cached_image, (const void *)0x20040000, image_length)
CopyImage ==
    /\ pc = "copy"
    /\ cached_image' = Store(cached_image, 0, Take(source, image_length))
    /\ pc' = "check_multiboot"
    /\ UNCHANGED <<should_continue, inputs, flash, validated, error_code,
                   locals, cfg4, spi_busy, rgb, reboot_ctrl, history>>

\* a compare loop that leaves the selector byte out
MultibootOffsetsNoSelector == (0 .. (MultibootSize - 1)) \ {SelectorOffset}

\* the offsets the multiboot compare loop visits
MultibootOffsets == 0 .. (MultibootSize - 1)

\* a compare that covers only the first of the two 32-byte records
MultibootDiffersFirstHalf(img) == Take(img, 32) # Take(multiboot_reference, 32)

\* some compared byte of the staged image differs from the reference
MultibootDiffers(img) ==
    \E i \in MultibootOffsets : ByteAt(img, i) # ByteAt(multiboot_reference, i)

\* the compare loop: target_addr stops at the first differing byte
CheckMultiboot ==
    /\ pc = "check_multiboot"
    /\ IF MultibootDiffers(cached_image)
       THEN /\ Error(MISSING_MULTIBOOT)
            /\ target_addr' =
                 CHOOSE i \in MultibootOffsets :
                    /\ ByteAt(cached_image, i) # ByteAt(multiboot_reference, i)
                    /\ \A j \in 0 .. (i - 1) :
                          ByteAt(cached_image, j) = ByteAt(multiboot_reference, j)
       ELSE /\ pc' = "patch"
            /\ target_addr' = MultibootSize
            /\ UNCHANGED <<error_code, rgb>>
    /\ UNCHANGED <<should_continue, inputs, flash, cached_image, validated,
                   bytes_left, current_ptr, page_offset, check_block, c, beyond,
                   cfg4, spi_busy, reboot_ctrl, history>>

\* ((uint8_t *)cached_image)[9] = 0x04
PatchImage ==
    /\ pc = "patch"
    /\ cached_image' = Store(cached_image, SelectorOffset, Fill(1, 4))
    /\ pc' = "disable_mapped"
    /\ UNCHANGED <<should_continue, inputs, flash, validated, error_code,
                   locals, cfg4, spi_busy, rgb, reboot_ctrl, history>>

\* cached_spi_id = spi_id; cached_image_length = image_length; cfg4 = 0
DisableMapped ==
    /\ pc = "disable_mapped"
    /\ cached_spi_id' = spi_id
    /\ cached_image_length' = image_length
    /\ cfg4' = CFG_BITBANG
    /\ pc' = "read_spi_id"
    /\ UNCHANGED <<should_continue, inputs, flash, cached_image, calculated_hash,
                   read_spi_id, error_code, locals, spi_busy, rgb, reboot_ctrl,
                   history>>

\* an identity compare that never reports a difference
SpiIdNeverDiffers(cached, read) == FALSE

\* cached_spi_id != read_spi_id
SpiIdDiffers(cached, read) == cached # read

\* ftfl_busy_wait(); read_spi_id = spiId(); compare
ReadSpiId ==
    /\ pc = "read_spi_id"
    /\ NotBusy
    /\ \E id \in SpiIds : read_spi_id' = id
    /\ last_cmd' = Cmd("id", 0, 0)
    /\ IF SpiIdDiffers(cached_spi_id, read_spi_id')
       THEN Error(SPI_MISMATCH)
       ELSE /\ pc' = "loop_init"
            /\ UNCHANGED <<error_code, rgb>>
    /\ UNCHANGED <<should_continue, inputs, flash, cached_image, calculated_hash,
                   cached_spi_id, cached_image_length, locals, cfg4, spi_busy,
                   reboot_ctrl, nerase, nprogram, erased, last_read, handoff, pass, pass_mark>>

\* ------------------------------------------------- the programming loop

\* bytes_left = cached_image_length; target_addr = 0; current_ptr = cached_image
LoopInit ==
    /\ pc = "loop_init"
    /\ bytes_left' = U32Of(cached_image_length)
    /\ target_addr' = 0
    /\ current_ptr' = 0
    /\ c' = 80
    /\ pc' = "loop_test"
    /\ UNCHANGED <<should_continue, inputs, flash, cached_image, validated,
                   error_code, page_offset, check_block, beyond, cfg4, spi_busy,
                   rgb, reboot_ctrl, history>>

\* a loop that is bounded by bytes_left alone
LoopCondNoLimit(left, addr) == left # U32Zero

\* while (bytes_left && (target_addr < 131072))
LoopCond(left, addr) == left # U32Zero /\ addr < MaxWritableOffset

LoopTest ==
    /\ pc = "loop_test"
    /\ pc' = IF LoopCond(bytes_left, target_addr) THEN "map_on" ELSE "loop_done"
    /\ UNCHANGED <<should_continue, inputs, flash, cached_image, validated,
                   error_code, locals, cfg4, spi_busy, rgb, reboot_ctrl, history>>

\* the skip check entered without the switch to mapped mode
MapOnForgotten ==
    /\ pc = "map_on"
    /\ pc' = "read_block"
    /\ UNCHANGED <<should_continue, inputs, flash, cached_image, validated,
                   error_code, locals, cfg4, spi_busy, rgb, reboot_ctrl, history>>

\* picorvspi_cfg4_write(0x80)
MapOn ==
    /\ pc = "map_on"
    /\ cfg4' = CFG_MAPPED
    /\ pc' = "read_block"
    /\ UNCHANGED <<should_continue, inputs, flash, cached_image, validated,
                   error_code, locals, spi_busy, rgb, reboot_ctrl, history>>

\* memcpy(check_block, (void *)(target_addr + 0x20000000), SPI_ERASE_SECTOR_SIZE)
ReadBlock ==
    /\ pc = "read_block"
    /\ check_block' = Slice(flash, target_addr, SPI_ERASE_SECTOR_SIZE)
    /\ pc' = "map_off"
    /\ UNCHANGED <<should_continue, inputs, flash, cached_image, validated,
                   error_code, bytes_left, target_addr, current_ptr, page_offset,
                   c, beyond, cfg4, spi_busy, rgb, reboot_ctrl, history>>

\* the n bytes read at offset off of cached_image; the bytes past the end of
\* the array read as g
ReadCached(off, n, g) ==
    LET inside == Slice(cached_image, off, n)
    IN  Cat(inside, Fill(n - MemLen(inside), g))

\* a read of n bytes at off reaches past the end of cached_image
PastEnd(off, n) == off + n > CachedImageSize

\* a skip check that never finds the block unchanged
NeverSameBlock(block, staged) == FALSE

\* !memcmp(check_block, current_ptr, SPI_ERASE_SECTOR_SIZE)
SameBlock(block, staged) == block = staged

\* picorvspi_cfg4_write(0x00); the skip check
CompareBlock ==
    /\ pc = "map_off"
    /\ cfg4' = CFG_BITBANG
    /\ \E g \in (IF ~PastEnd(current_ptr, SPI_ERASE_SECTOR_SIZE) THEN {beyond}
                ELSE IF beyond = Unread THEN Garbage ELSE {beyond}) :
         /\ beyond' = g
         /\ last_read' = [off |-> current_ptr, len |-> SPI_ERASE_SECTOR_SIZE]
         /\ IF SameBlock(check_block, ReadCached(current_ptr, SPI_ERASE_SECTOR_SIZE, g))
            THEN /\ current_ptr' = current_ptr + SPI_ERASE_SECTOR_SIZE
                 /\ target_addr' = target_addr + SPI_ERASE_SECTOR_SIZE
                 /\ bytes_left' = U32Sub(bytes_left, U32Of(SPI_ERASE_SECTOR_SIZE))
                 /\ pc' = "loop_test"
            ELSE /\ pc' = "erase"
                 /\ UNCHANGED <<current_ptr, target_addr, bytes_left>>
    /\ UNCHANGED <<should_continue, inputs, flash, cached_image, validated,
                   error_code, page_offset, check_block, c, spi_busy, rgb,
                   reboot_ctrl, nerase, nprogram, erased, last_cmd, handoff, pass, pass_mark>>

\* ftfl_begin_erase_sector(target_addr), then page_offset = 0
BeginErase ==
    /\ pc = "erase"
    /\ NotBusy
    /\ flash' = EraseSector(flash, target_addr)
    /\ spi_busy' = TRUE
    /\ nerase' = nerase + 1
    /\ erased' = erased \cup {target_addr}
    /\ last_cmd' = Cmd("erase", target_addr, SPI_ERASE_SECTOR_SIZE)
    /\ page_offset' = 0
    /\ pc' = "page_loop"
    /\ UNCHANGED <<should_continue, inputs, cached_image, validated, error_code,
                   bytes_left, target_addr, current_ptr, check_block, c, beyond,
                   cfg4, rgb, reboot_ctrl, nprogram, last_read, handoff, pass, pass_mark>>

\* a page loop that is not bounded by the sector
PageCondNoLimit(left, off) == left # U32Zero

\* bytes_left && (page_offset < SPI_ERASE_SECTOR_SIZE)
PageCond(left, off) == left # U32Zero /\ off < SPI_ERASE_SECTOR_SIZE

\* bytes_to_write = min(bytes_left, SPI_PROGRAM_PAGE_SIZE)
BytesToWrite(left) ==
    IF U32Gt(left, U32Of(SPI_PROGRAM_PAGE_SIZE)) THEN SPI_PROGRAM_PAGE_SIZE ELSE left[2]

\* one iteration of the page loop
ProgramPage ==
    /\ pc = "page_loop"
    /\ PageCond(bytes_left, page_offset)
    /\ NotBusy
    /\ LET n == BytesToWrite(bytes_left) IN
         /\ rgb' = "wheel"
         /\ c' = (c + 10) % 256
         /\ flash' = WritePage(flash, target_addr, ReadCached(current_ptr, n, beyond))
         /\ spi_busy' = TRUE
         /\ nprogram' = nprogram + 1
         /\ last_cmd' = Cmd("program", target_addr, n)
         /\ last_read' = [off |-> current_ptr, len |-> n]
         /\ current_ptr' = current_ptr + SPI_PROGRAM_PAGE_SIZE
         /\ target_addr' = target_addr + SPI_PROGRAM_PAGE_SIZE
         /\ bytes_left' = U32Sub(bytes_left, U32Of(n))
         /\ page_offset' = page_offset + SPI_PROGRAM_PAGE_SIZE
    /\ UNCHANGED <<pc, should_continue, inputs, cached_image, validated,
                   error_code, check_block, beyond, cfg4, reboot_ctrl, nerase,
                   erased, handoff, pass, pass_mark>>

\* the page loop ends
PageLoopExit ==
    /\ pc = "page_loop"
    /\ ~PageCond(bytes_left, page_offset)
    /\ pc' = "loop_test"
    /\ UNCHANGED <<should_continue, inputs, flash, cached_image, validated,
                   error_code, locals, cfg4, spi_busy, rgb, reboot_ctrl, history>>

\* ------------------------------------------------------ finish_flashing

\* rgb_mode_writing(); msleep(1000)
ModeWriting ==
    /\ pc = "loop_done"
    /\ rgb' = "writing"
    /\ pc' = "select"
    /\ UNCHANGED <<should_continue, inputs, flash, cached_image, validated,
                   error_code, locals, cfg4, spi_busy, reboot_ctrl, history>>

\* erase_booster: ftfl_busy_wait(); spiBeginWrite(9, &zero, 1)
SelectPrimary ==
    /\ pc = "select"
    /\ NotBusy
    /\ flash' = WritePage(flash, SelectorOffset, Fill(1, 0))
    /\ spi_busy' = TRUE
    /\ nprogram' = nprogram + 1
    /\ last_cmd' = Cmd("program", SelectorOffset, 1)
    /\ handoff' = Append(handoff, "select")
    /\ pc' = "erase_booster"
    /\ UNCHANGED <<should_continue, inputs, cached_image, validated, error_code,
                   locals, cfg4, rgb, reboot_ctrl, nerase, erased, last_read, pass, pass_mark>>

\* erase_booster: ftfl_busy_wait(); ftfl_begin_erase_sector(0x5a000)
EraseBooster ==
    /\ pc = "erase_booster"
    /\ NotBusy
    /\ flash' = EraseSector(flash, BoosterSector)
    /\ spi_busy' = TRUE
    /\ nerase' = nerase + 1
    /\ last_cmd' = Cmd("erase", BoosterSector, SPI_ERASE_SECTOR_SIZE)
    /\ handoff' = Append(handoff, "erase")
    /\ pc' = "reboot"
    /\ UNCHANGED <<should_continue, inputs, cached_image, validated, error_code,
                   locals, cfg4, rgb, reboot_ctrl, nprogram, erased, last_read, pass, pass_mark>>

\* finish_flashing: ftfl_busy_wait(); reboot(): reboot_ctrl_write(0xac | 2)
Reboot ==
    /\ pc = "reboot"
    /\ NotBusy
    /\ reboot_ctrl' = 174
    /\ handoff' = Append(handoff, "reboot")
    /\ pc' = "rebooted"
    /\ UNCHANGED <<should_continue, inputs, flash, cached_image, validated,
                   error_code, locals, cfg4, spi_busy, rgb, nerase, nprogram,
                   erased, last_cmd, last_read, pass, pass_mark>>

\* ------------------------------------------------------- specification

\* The programming pass run once more over the flash the first pass left,
\* with the same staged image: lines 200-202 again, then the loop.
SecondPass ==
    /\ pc = "loop_done"
    /\ pass = 1
    /\ pass' = 2
    /\ pass_mark' = <<nerase, nprogram>>
    /\ erased' = {}
    /\ bytes_left' = U32Of(cached_image_length)
    /\ target_addr' = 0
    /\ current_ptr' = 0
    /\ pc' = "loop_test"
    /\ UNCHANGED <<should_continue, inputs, flash, cached_image, validated,
                   error_code, page_offset, check_block, c, beyond, cfg4, spi_busy,
                   rgb, reboot_ctrl, nerase, nprogram, last_cmd, last_read, handoff>>

Next ==
    \/ Start \/ usb_isr \/ WaitContinue
    \/ CheckSize \/ CheckHash \/ CopyImage \/ CheckMultiboot \/ PatchImage
    \/ DisableMapped \/ ReadSpiId
    \/ LoopInit \/ LoopTest \/ MapOn \/ ReadBlock \/ CompareBlock
    \/ BeginErase \/ ProgramPage \/ PageLoopExit
    \/ ModeWriting \/ SelectPrimary \/ EraseBooster \/ Reboot
    \/ SpiComplete

Spec == Init /\ [][Next]_vars

\* the updater with the programming pass repeated
NextTwice == Next \/ SecondPass

SpecTwice == Init /\ [][NextTwice]_vars

TypeOK ==
    /\ bytes_left \in (0 .. (Half - 1)) \X (0 .. (Half - 1))
    /\ target_addr \in 0 .. (MaxWritableOffset + SPI_ERASE_SECTOR_SIZE)
    /\ MemLen(flash) = MaxWritableOffset
    /\ MemLen(cached_image) = CachedImageSize
    /\ MemLen(check_block) = SPI_ERASE_SECTOR_SIZE

\* ---------------------------------------------------- program positions

\* positions before the programming loop: validation and identity check
ValidationPcs ==
    { "start", "wait_continue", "check_size", "check_hash", "copy",
      "check_multiboot", "patch", "disable_mapped", "read_spi_id" }

\* positions of the programming loop, from its set-up to its exit
LoopPcs ==
    { "loop_init", "loop_test", "map_on", "read_block", "map_off", "erase",
      "page_loop", "loop_done" }

\* positions of finish_flashing
HandoffPcs == { "select", "erase_booster", "reboot", "rebooted" }

ErrorCodes == { INVALID_IMAGE_SIZE, HASH_MISMATCH, SPI_MISMATCH, MISSING_MULTIBOOT }

NoFlashCommand == nerase = 0 /\ nprogram = 0

\* ------------------------------------------------------------- claims

\* C1: in every state that precedes the programming loop and in every state
\* after error() has latched a code, no erase and no program command has
\* been issued and the flash holds its initial contents.
C1_FailureLeavesFlashUntouched ==
    (pc \in ValidationPcs \/ error_code # NO_ERROR) =>
        /\ NoFlashCommand
        /\ flash = flash0
        /\ handoff = <<>>

C1_Witness ==
    /\ pc = "failed"
    /\ error_code = SPI_MISMATCH
    /\ flash = flash0
    /\ flash0 # Fill(MaxWritableOffset, ERASED)

\* C2: an image longer than the staging buffer ends in Failed with
\* INVALID_IMAGE_SIZE once the size check has run; the staging buffer is
\* never written and no flash command is issued.
C2_OversizeRejected ==
    image_length > CachedImageSize =>
        /\ cached_image = Fill(CachedImageSize, 0)
        /\ NoFlashCommand
        /\ flash = flash0
        /\ pc \in { "start", "wait_continue", "check_size", "failed" }
        /\ pc = "failed" => error_code = INVALID_IMAGE_SIZE
        /\ pc # "failed" => error_code = NO_ERROR

C2_Witness ==
    /\ image_length > CachedImageSize
    /\ pc = "failed"
    /\ error_code = INVALID_IMAGE_SIZE

\* the hash check has run
PastHashCheck == pc \notin { "start", "wait_continue", "check_size", "check_hash" }

\* the declared hash is not the hash of the source region
DeclaredHashWrong == xxhash # XXH32(source, hash_length, image_seed)

\* C3 as claimed: every image whose computed hash differs from the declared
\* hash fails with HASH_MISMATCH.
C3_Original ==
    (DeclaredHashWrong /\ PastHashCheck) =>
        (pc = "failed" /\ error_code = HASH_MISMATCH)

\* C3 amended: every image that fits the staging buffer and whose computed
\* hash differs from the declared hash fails with HASH_MISMATCH.
C3_HashMismatchRejected ==
    (DeclaredHashWrong /\ image_length <= CachedImageSize /\ PastHashCheck) =>
        /\ pc = "failed"
        /\ error_code = HASH_MISMATCH
        /\ calculated_hash = XXH32(source, hash_length, image_seed)

C3_Witness ==
    /\ DeclaredHashWrong
    /\ image_length <= CachedImageSize
    /\ pc = "failed"
    /\ error_code = HASH_MISMATCH

\* the first 64 bytes of the staging buffer when the descriptor compare
\* runs: the source bytes where the image reaches, the buffer's initial zeros
\* elsewhere
StagedHeaderAtCheck ==
    Store(Fill(MultibootSize, 0), 0, Take(source, Min(image_length, MultibootSize)))

\* a and b hold the same byte at every offset other than the selector's
SameExceptSelector(a, b) ==
    Store(a, SelectorOffset, Fill(1, 0)) = Store(b, SelectorOffset, Fill(1, 0))

\* the descriptor compare has run
PastMultibootCheck ==
    /\ pc \notin { "start", "wait_continue", "check_size", "check_hash", "copy",
                   "check_multiboot" }
    /\ error_code \notin { INVALID_IMAGE_SIZE, HASH_MISMATCH }

\* C4 as claimed: the descriptor check fails exactly when a byte other than
\* the selector byte differs from the reference.
C4_Original ==
    PastMultibootCheck =>
        ( error_code = MISSING_MULTIBOOT <=>
            ~SameExceptSelector(StagedHeaderAtCheck, multiboot_reference) )

\* C4 amended: the descriptor check fails exactly when some byte among the
\* first 64 staged bytes, the selector byte at offset 9 included, differs
\* from the reference (whose selector byte is 0x04); an image that passes
\* has its selector byte rewritten to 0x04, the value it already had.
C4_DescriptorCheck ==
    PastMultibootCheck =>
        /\ error_code = MISSING_MULTIBOOT <=>
              StagedHeaderAtCheck # multiboot_reference
        /\ error_code = MISSING_MULTIBOOT => pc = "failed"
        /\ (error_code # MISSING_MULTIBOOT /\ pc # "patch") =>
              /\ ByteAt(cached_image, SelectorOffset) = 4
              /\ ByteAt(StagedHeaderAtCheck, SelectorOffset) = 4

C4_Witness ==
    /\ pc = "failed"
    /\ error_code = MISSING_MULTIBOOT
    /\ SameExceptSelector(StagedHeaderAtCheck, multiboot_reference)

\* C5: the identity query is issued in bit-banged mode, after the switch out
\* of mapped mode and before any erase or program command; erase and program
\* commands are issued only with the re-read identity equal to the captured
\* one; a differing identity ends in Failed with SPI_MISMATCH and no flash
\* command.
C5_IdentityBeforeWrite ==
    /\ last_cmd.op = "id" => (last_cmd.mode = CFG_BITBANG /\ NoFlashCommand)
    /\ ~NoFlashCommand =>
          /\ cached_spi_id = spi_id
          /\ read_spi_id = cached_spi_id
          /\ pc \in LoopPcs \cup HandoffPcs
    /\ (last_cmd.op # "none" /\ read_spi_id # spi_id) =>
          /\ pc = "failed"
          /\ error_code = SPI_MISMATCH
          /\ NoFlashCommand
          /\ last_cmd.op = "id"

C5_Witness ==
    /\ last_cmd.op = "id"
    /\ read_spi_id # cached_spi_id
    /\ pc = "failed"
    /\ error_code = SPI_MISMATCH

\* the sector at address a lies inside the staging buffer
InBuffer(a) == a + SPI_ERASE_SECTOR_SIZE <= CachedImageSize

\* the sector at address a held, before the update, what the staged image
\* holds for it
UnchangedBlock(a) ==
    Slice(flash0, a, SPI_ERASE_SECTOR_SIZE) = Slice(cached_image, a, SPI_ERASE_SECTOR_SIZE)

C7_SecondPassIdle ==
    (pass = 2 /\ pc \in LoopPcs) => <<nerase, nprogram>> = pass_mark

\* C8 as claimed: when the loop exits the flash holds the staged image over
\* [0, min(image_length, 131072)), and every sector the loop erased is a
\* sector of the image whose content differed from the initial flash.
C8_FlashHoldsImage ==
    (pass = 1 /\ pc = "loop_done") =>
        LET n == Min(cached_image_length, MaxWritableOffset) IN
        /\ Take(flash, n) = Take(cached_image, n)
        /\ \A a \in erased : a < n /\ ~UnchangedBlock(a)

\* C9: the handoff steps happen in the order select, erase, reboot, each at
\* most once, only after the loop has ended and never after a failure; the
\* selector byte at flash address 9 reads 0 from the first step on, the
\* erase of the booster's sector is the last flash command, and the reboot
\* is issued with the controller idle.
C9_HandoffOrder ==
    /\ handoff \in { <<>>, <<"select">>, <<"select", "erase">>,
                     <<"select", "erase", "reboot">> }
    /\ handoff # <<>> =>
          /\ pc \in HandoffPcs
          /\ error_code = NO_ERROR
          /\ (bytes_left = U32Zero \/ target_addr >= MaxWritableOffset)
          /\ ByteAt(flash, SelectorOffset) = 0
    /\ Len(handoff) >= 2 =>
          (last_cmd.op = "erase" /\ last_cmd.addr = BoosterSector)
    /\ (reboot_ctrl # -1) <=> (Len(handoff) = 3)
    /\ reboot_ctrl # -1 =>
          /\ pc = "rebooted"
          /\ reboot_ctrl = 174
          /\ ~spi_busy
    /\ error_code # NO_ERROR => (handoff = <<>> /\ reboot_ctrl = -1)

C9_Witness ==
    /\ pc = "rebooted"
    /\ handoff = <<"select", "erase", "reboot">>
    /\ nerase > 1

\* C10: error_code changes only from NO_ERROR, to one of the four codes, and
\* with that the program is in Failed; it is in Failed exactly when a code
\* is latched; and once a code is latched nothing changes any more.
C10_ErrorLatched ==
    [][ /\ error_code # NO_ERROR => UNCHANGED vars
        /\ error_code' # error_code =>
              /\ error_code = NO_ERROR
              /\ error_code' \in ErrorCodes
              /\ rgb' = "error"
        /\ (pc' = "failed") <=> (error_code' # NO_ERROR) ]_vars

C10_Witness ==
    /\ pc = "failed"
    /\ error_code = MISSING_MULTIBOOT
    /\ rgb = "error"
    /\ ~spi_busy

\* positions inside the body of the programming loop, at the head of a block
BlockHeadPcs == { "map_on", "read_block", "map_off", "erase" }

\* C11 as claimed: bytes_left never exceeds the image length it started
\* from, and the loop skip-checks, erases and programs no block that starts
\* at or past image_length.
C11_LoopStaysInImage ==
    (pc \in LoopPcs /\ pc # "loop_init") =>
        /\ ~U32Gt(bytes_left, U32Of(cached_image_length))
        /\ pc \in BlockHeadPcs => target_addr < cached_image_length

\* the last flash command was issued by the programming loop
LoopCommand == pc \in LoopPcs /\ last_cmd.op \in {"erase", "program"}

\* the erase discipline of the loop, apart from how many pages of an erased
\* block are programmed: erases are sector aligned, programs page aligned;
\* a newly erased sector lies above every sector erased before and each
\* erase adds a sector; a page goes to the sector erased last; in the page
\* loop the last command is the erase of the current block or the program of
\* its previous page.
EraseDiscipline ==
    /\ pc \in LoopPcs => Cardinality(erased) = nerase - pass_mark[1]
    /\ (LoopCommand /\ last_cmd.op = "erase") =>
          /\ last_cmd.addr % SPI_ERASE_SECTOR_SIZE = 0
          /\ last_cmd.addr \in erased
          /\ \A a \in erased : a <= last_cmd.addr
    /\ (LoopCommand /\ last_cmd.op = "program") =>
          /\ last_cmd.addr % SPI_PROGRAM_PAGE_SIZE = 0
          /\ SectorOf(last_cmd.addr) \in erased
          /\ \A a \in erased : a <= SectorOf(last_cmd.addr)
          /\ last_cmd.addr + SPI_PROGRAM_PAGE_SIZE = SectorOf(last_cmd.addr) + page_offset
    /\ pc = "page_loop" =>
          /\ LoopCommand
          /\ SectorOf(last_cmd.addr) = target_addr - page_offset
          /\ last_cmd.op = "erase" <=> page_offset = 0

\* the loop has left the page loop of the block it erased last
BlockLeft == LoopCommand /\ pc # "page_loop"

\* C12 as claimed: the erase discipline, and every erased block has all of
\* its pages programmed when the loop leaves it.
C12_Original ==
    /\ EraseDiscipline
    /\ BlockLeft => (last_cmd.op = "program" /\ page_offset = SPI_ERASE_SECTOR_SIZE)

\* C12 amended: the erase discipline, and when the loop leaves an erased
\* block it has programmed, in ascending order, all 16 pages of it or, when
\* the image ends inside the block, the pages up to the one that holds the
\* image's last byte.
C12_EraseDiscipline ==
    /\ EraseDiscipline
    /\ BlockLeft =>
          /\ last_cmd.op = "program"
          /\ page_offset = SPI_ERASE_SECTOR_SIZE \/ bytes_left = U32Zero
          /\ page_offset < SPI_ERASE_SECTOR_SIZE =>
                last_cmd.addr + last_cmd.len = cached_image_length

C12_Witness ==
    /\ pc = "loop_done"
    /\ erased = {0, SPI_ERASE_SECTOR_SIZE}
    /\ last_cmd.op = "program"
    /\ page_offset = SPI_PROGRAM_PAGE_SIZE
    /\ bytes_left = U32Zero

\* C13: every erase and every page write of the programming loop lies inside
\* [0, MaxWritableOffset): the erased sector and each written byte.
C13_WritesBelowLimit ==
    LoopCommand =>
        /\ last_cmd.addr >= 0
        /\ last_cmd.len > 0
        /\ last_cmd.addr + last_cmd.len <= MaxWritableOffset
        /\ \A a \in erased : a + SPI_ERASE_SECTOR_SIZE <= MaxWritableOffset

\* the loop ran on to the address limit and wrote the last page below it
C13_Witness ==
    /\ pc = "loop_done"
    /\ target_addr = MaxWritableOffset
    /\ bytes_left # U32Zero
    /\ last_cmd.op = "program"
    /\ last_cmd.addr + last_cmd.len = MaxWritableOffset

\* C14: every erase command, every program command and the identity query,
\* in the loop and in the handoff, is issued while the controller reports
\* not busy; the first page write of a block finds its erase complete.
C14_IssuedWhenIdle ==
    /\ last_cmd.op # "none" => ~last_cmd.busy
    /\ (nerase + nprogram = 0 /\ last_cmd.op # "id") => ~spi_busy
    /\ (pc = "page_loop" /\ page_offset > 0) => last_cmd.op = "program"

\* a page write issued after the erase of its block has completed
C14_Witness ==
    /\ pc = "page_loop"
    /\ last_cmd.op = "program"
    /\ last_cmd.addr % SPI_ERASE_SECTOR_SIZE = 0
    /\ ~last_cmd.busy
    /\ spi_busy

\* C15 as claimed: no step writes another value to the cfg4 register while
\* an erase or a page program is still in flight.
C15_NoToggleWhileBusy == [][ cfg4' # cfg4 => ~spi_busy ]_vars

\* positions at which the program reads the flash through the mapped window:
\* the hash and the copy of the source image, and the skip-check read
MappedReadPcs == { "check_hash", "copy", "read_block" }

\* C16: cfg4 always holds one of the two modes; the identity query and every
\* erase and program command are issued in bit-banged mode; every read of
\* the flash through the mapped window is made in mapped mode; and once the
\* skip-check read is over the interface is in bit-banged mode for the rest
\* of the block and the handoff.
C16_ModeDiscipline ==
    /\ cfg4 \in { CFG_MAPPED, CFG_BITBANG }
    /\ last_cmd.op # "none" => last_cmd.mode = CFG_BITBANG
    /\ pc \in MappedReadPcs \cup { "map_off" } => cfg4 = CFG_MAPPED
    /\ pc \in (LoopPcs \cup HandoffPcs) \ { "read_block", "map_off" } =>
          cfg4 = CFG_BITBANG

\* a skip-check read in mapped mode, after a block has been programmed
C16_Witness ==
    /\ pc = "read_block"
    /\ cfg4 = CFG_MAPPED
    /\ last_cmd.op = "program"
    /\ last_cmd.mode = CFG_BITBANG

\* the staging buffer as the copy left it, without the patch
UnpatchedCopy == Store(Fill(CachedImageSize, 0), 0, Take(source, image_length))

\* C17: no step writes the source region; the staging buffer changes only in
\* the copy and in the patch; the patch step is taken only with all 64
\* staged bytes equal to the reference and sets staged byte 9 to 0x04; a
\* size, hash or descriptor failure is latched from a position before the
\* patch, with the staging buffer unpatched.
C17_PatchAfterCompare ==
    [][ /\ source' = source
        /\ cached_image' # cached_image => pc \in { "copy", "patch" }
        /\ pc = "patch" =>
              /\ Take(cached_image, MultibootSize) = multiboot_reference
              /\ cached_image' = Store(cached_image, SelectorOffset, Fill(1, 4))
              /\ ByteAt(cached_image', SelectorOffset) = 4
              /\ error_code' = NO_ERROR
        /\ (error_code' # error_code /\ error_code' # SPI_MISMATCH) =>
              /\ pc \in { "check_size", "check_hash", "check_multiboot" }
              /\ cached_image' \in { Fill(CachedImageSize, 0), UnpatchedCopy }
      ]_vars

\* the patch has been applied to a staged image that passed the compare
C17_Witness ==
    /\ pc = "disable_mapped"
    /\ ByteAt(cached_image, SelectorOffset) = 4
    /\ Take(cached_image, MultibootSize) = multiboot_reference
    /\ cached_image = UnpatchedCopy

\* the steps of fobooster_main itself: everything but the transport's
\* interrupt and the flash device finishing a command
MainStep ==
    \/ Start \/ WaitContinue
    \/ CheckSize \/ CheckHash \/ CopyImage \/ CheckMultiboot \/ PatchImage
    \/ DisableMapped \/ ReadSpiId
    \/ LoopInit \/ LoopTest \/ MapOn \/ ReadBlock \/ CompareBlock
    \/ BeginErase \/ ProgramPage \/ PageLoopExit
    \/ ModeWriting \/ SelectPrimary \/ EraseBooster \/ Reboot

\* the processor keeps executing, the transport eventually raises the
\* continue flag, and the device eventually finishes a command
LiveSpec ==
    /\ Init /\ [][Next]_vars
    /\ WF_vars(MainStep)
    /\ WF_vars(usb_isr)
    /\ WF_vars(SpiComplete)

TerminalPcs == { "rebooted", "failed" }

\* C18: under the fairness of LiveSpec every run reaches reboot or Failed
\* and stays there; inside the loop target_addr never decreases, never
\* exceeds 131072, and every return to the loop test has advanced it (a
\* skipped block by 4096, a programmed block by at least one page); a run
\* that has entered the programming loop ends in the reboot.
C18_Terminates ==
    /\ <>(pc \in TerminalPcs)
    /\ [][ (pc \in TerminalPcs) => (pc' = pc) ]_vars
    /\ [](pc \in LoopPcs => <>(pc = "rebooted"))
    /\ []((pc \in LoopPcs /\ pc # "loop_init") =>
              target_addr <= MaxWritableOffset)
    /\ [][ (pc \in LoopPcs /\ pc # "loop_init") =>
              /\ target_addr' >= target_addr
              /\ pc' \in (LoopPcs \cup HandoffPcs)
              /\ (pc' = "loop_test" /\ pc # "loop_test") =>
                    \/ target_addr' = target_addr + SPI_ERASE_SECTOR_SIZE
                    \/ pc = "page_loop" /\ page_offset >= SPI_PROGRAM_PAGE_SIZE
       ]_vars

\* a run whose loop ran all the way to the address limit has rebooted
C18_Witness ==
    /\ pc = "rebooted"
    /\ target_addr = MaxWritableOffset
    /\ nprogram > 0
    /\ bytes_left # U32Zero

\* C19: every range of the staging buffer read by the loop (the 4096-byte
\* compare at current_ptr, the source range of a page write) lies inside
\* [0, sizeof(cached_image)).
C19_ReadsInsideBuffer ==
    last_read # NoRead =>
        /\ last_read.off >= 0
        /\ last_read.len >= 0
        /\ last_read.off + last_read.len <= CachedImageSize

\* the facts the four checks test, as functions of the inputs
SizeBad == image_length > CachedImageSize
DescriptorBad == StagedHeaderAtCheck # multiboot_reference

\* the code of the first failing check among size, hash and descriptor; a
\* run that passes the three can fail only on the device identity
FirstFailure ==
    IF SizeBad THEN INVALID_IMAGE_SIZE
    ELSE IF DeclaredHashWrong THEN HASH_MISMATCH
    ELSE IF DescriptorBad THEN MISSING_MULTIBOOT
    ELSE SPI_MISMATCH

\* C20: a failed run holds the code of the first failing check in the order
\* size, hash, descriptor, identity; the hash is computed only for an image
\* of accepted size, the copy is made only after size and hash passed, and
\* the mode switch and every flash command (the identity read among them)
\* come only after size, hash and descriptor passed.
C20_FirstFailingCheck ==
    /\ pc = "failed" => error_code = FirstFailure
    /\ error_code = SPI_MISMATCH => read_spi_id # spi_id
    /\ (pc # "failed" /\ pc \notin { "start", "wait_continue", "check_size" })
          => ~SizeBad
    /\ (pc # "failed" /\ PastHashCheck) => ~DeclaredHashWrong
    /\ (pc # "failed" /\ PastMultibootCheck) => ~DescriptorBad
    /\ calculated_hash # U32Zero => ~SizeBad
    /\ cached_image # Fill(CachedImageSize, 0) =>
          (~SizeBad /\ ~DeclaredHashWrong)
    /\ (cfg4 = CFG_BITBANG \/ last_cmd.op # "none") =>
          (~SizeBad /\ ~DeclaredHashWrong /\ ~DescriptorBad)

\* an oversize image with a wrong declared hash and a bad descriptor has
\* failed on its size, with nothing hashed, copied or switched
C20_Witness ==
    /\ pc = "failed"
    /\ SizeBad /\ DeclaredHashWrong /\ DescriptorBad
    /\ error_code = INVALID_IMAGE_SIZE
    /\ calculated_hash = U32Zero
    /\ cached_image = Fill(CachedImageSize, 0)
    /\ cfg4 = CFG_MAPPED

====
